---- MODULE Spec2Model ----
(***************************************************************************)
(* Model of src/src/App.tsx: the session state of the roadmap creator, its *)
(* three localStorage slots, the generateRoadmap / saveRoadmap /           *)
(* loadRoadmap handlers, the rendered controls that trigger them, and the  *)
(* one asynchronous remote call.                                           *)
(*                                                                         *)
(* Text is modelled as a sequence of characters.  A credential or a goal   *)
(* is a sequence over letters and " "; a remote response is a sequence     *)
(* over "[", "]", "{", "}", ",", " ", "w" (any character that is no JSON   *)
(* punctuation) and string literals, each one element.  Object members     *)
(* are written by their values only (the keys and the colon are elided),   *)
(* so `{[]}` stands for an object with one array-valued member.            *)
(***************************************************************************)
EXTENDS Integers, Sequences, FiniteSets, TLC

VARIABLES
    preferences,    \* useState<UserPreferences>
    loading,        \* useState(false): the busy flag
    roadmap,        \* useState<RoadmapStep[]>
    error,          \* useState('')
    apiKey,         \* useState: the credential
    showApiInput,   \* useState: credential panel (TRUE) or form (FALSE)
    isDarkMode,     \* useState: display mode
    savedRoadmaps,  \* useState<SavedRoadmap[]>
    localStorage,   \* the three persisted slots
    inflight,       \* pending generateRoadmap calls, each with its closure
    event,          \* the handler that ran last, with its argument
    lastGenerated   \* the prompt of the latest generation that succeeded

vars == <<preferences, loading, roadmap, error, apiKey, showApiInput,
          isDarkMode, savedRoadmaps, localStorage, inflight, event,
          lastGenerated>>

-----------------------------------------------------------------------------
(* Bounds of the model.                                                    *)

MaxSaved == 2

MaxInFlight == 2

MaxPad == 2

-----------------------------------------------------------------------------
(* Strings.                                                                *)

IsSpace(c) == c = " "

RECURSIVE TrimStart(_)
TrimStart(s) ==
    IF s # <<>> /\ IsSpace(Head(s)) THEN TrimStart(Tail(s)) ELSE s

RECURSIVE TrimEnd(_)
TrimEnd(s) ==
    IF s # <<>> /\ IsSpace(s[Len(s)]) THEN TrimEnd(SubSeq(s, 1, Len(s) - 1)) ELSE s

\* String.prototype.trim
Trim(s) == TrimEnd(TrimStart(s))

\* The test without trim: !s
IsBlankUntrimmed(s) == s = <<>>

\* !s.trim()
IsBlank(s) == Trim(s) = <<>>

-----------------------------------------------------------------------------
(* Input sets.                                                             *)

\* The values the interactive session types or selects: two goals and the
\* cleared field, a credential, a blank one and the cleared field; the three
\* selects stay on the option they start with.
Goals == {<<>>, <<"a">>, <<"b">>}
Keys == {<<>>, <<" ">>, <<"k">>}
Timeframes == {"6 months"}
Experiences == {"beginner"}
Dedications == {"10 hours/week"}

\* new Date().toISOString() at the moment of a save.
Timestamps == {"t1"}

\* The goals and credentials generateRoadmap is applied to directly.
GoalInputs == {<<>>, <<" ">>, <<" ", " ">>, <<"a">>, <<" ", "a">>}
KeyInputs == {<<>>, <<" ">>, <<" ", " ">>, <<"k">>}

Options(field) ==
    CASE field = "goal" -> Goals
      [] field = "timeframe" -> Timeframes
      [] field = "experience" -> Experiences
      [] field = "dedication" -> Dedications

Fields == {"goal", "timeframe", "experience", "dedication"}

DefaultPreferences ==
    [goal |-> <<>>, timeframe |-> "6 months", experience |-> "beginner",
     dedication |-> "10 hours/week"]

ErrNoKey == "Please enter your Gemini API key"
ErrNoGoal == "Please enter your learning goal"
ErrFailed == "Failed to generate roadmap. Please check your API key and try again."

-----------------------------------------------------------------------------
(* The response text: text.match(/\[[\s\S]*\]/) and JSON.parse.            *)

Range(f) == {f[x] : x \in DOMAIN f}

Min(S) == CHOOSE x \in S : \A y \in S : x <= y
Max(S) == CHOOSE x \in S : \A y \in S : x >= y

\* The lazy pattern /\[[\s\S]*?\]/ : from the first "[" to the next "]".
MatchLazy(text) ==
    LET opens == {i \in 1..Len(text) : text[i] = "["}
        first == Min(opens)
        closes == {j \in 1..Len(text) : j > first /\ text[j] = "]"}
    IN  IF opens = {} \/ closes = {}
        THEN [found |-> FALSE, str |-> <<>>]
        ELSE [found |-> TRUE, str |-> SubSeq(text, first, Min(closes))]

\* Leftmost match of /\[[\s\S]*\]/ : from the first "[" to the last "]".
Match(text) ==
    LET opens == {i \in 1..Len(text) : text[i] = "["}
        first == Min(opens)
        closes == {j \in 1..Len(text) : j > first /\ text[j] = "]"}
    IN  IF opens = {} \/ closes = {}
        THEN [found |-> FALSE, str |-> <<>>]
        ELSE [found |-> TRUE, str |-> SubSeq(text, first, Max(closes))]

\* A parsed JSON value: an array or an object with its members in order, or
\* a string.
Value(kind, elems, str) == [t |-> kind, e |-> elems, v |-> str]

NoValue == Value("none", <<>>, "")

ParseFail == [ok |-> FALSE, val |-> NoValue, pos |-> 0]

\* A string literal, as opposed to punctuation, white space and bare text.
IsLiteral(c) == c \notin {"[", "]", "{", "}", ",", " ", "w"}

RECURSIVE SkipWs(_, _)
SkipWs(s, i) ==
    IF i <= Len(s) /\ IsSpace(s[i]) THEN SkipWs(s, i + 1) ELSE i

RECURSIVE ParseValue(_, _)
RECURSIVE ParseItems(_, _, _, _, _)

\* The members of an array or object opened before position i, up to `close`.
ParseContainer(s, i, close, kind) ==
    LET j == SkipWs(s, i)
    IN  IF j <= Len(s) /\ s[j] = close
        THEN [ok |-> TRUE, val |-> Value(kind, <<>>, ""), pos |-> j + 1]
        ELSE ParseItems(s, j, close, kind, <<>>)

ParseItems(s, i, close, kind, acc) ==
    LET v == ParseValue(s, i)
        j == SkipWs(s, v.pos)
    IN  IF ~v.ok \/ j > Len(s) THEN ParseFail
        ELSE IF s[j] = ","
             THEN ParseItems(s, j + 1, close, kind, Append(acc, v.val))
        ELSE IF s[j] = close
             THEN [ok |-> TRUE, val |-> Value(kind, Append(acc, v.val), ""), pos |-> j + 1]
        ELSE ParseFail

ParseValue(s, i) ==
    LET j == SkipWs(s, i)
    IN  IF j > Len(s) THEN ParseFail
        ELSE IF s[j] = "[" THEN ParseContainer(s, j + 1, "]", "arr")
        ELSE IF s[j] = "{" THEN ParseContainer(s, j + 1, "}", "obj")
        ELSE IF IsLiteral(s[j])
             THEN [ok |-> TRUE, val |-> Value("str", <<>>, s[j]), pos |-> j + 1]
        ELSE ParseFail

\* JSON.parse: one value, then nothing but white space; otherwise it throws.
JSONparse(s) ==
    LET v == ParseValue(s, 1)
    IN  IF v.ok /\ SkipWs(s, v.pos) > Len(s)
        THEN [ok |-> TRUE, val |-> v.val]
        ELSE [ok |-> FALSE, val |-> NoValue]

\* Lines 120-126: the roadmap a response text yields, or the thrown error.
ExtractRoadmap(text) ==
    LET m == Match(text)
        p == JSONparse(m.str)
    IN  IF m.found /\ p.ok
        THEN [ok |-> TRUE, steps |-> p.val.e]
        ELSE [ok |-> FALSE, steps |-> <<>>]

\* Response texts: a candidate array between two stretches of free text.
PadChars == {"[", "]", "w"}

Pads == UNION {[1..k -> PadChars] : k \in 0..MaxPad}

Mids ==
    { <<"[", "{", "}", "]">>,
      <<"[", "{", "[", "]", "}", "]">>,
      <<"[", " ", "{", "}", ",", "{", "[", "]", "}", " ", "]">>,
      <<"[", "{", "]">>,
      <<"[", "{", "}", ",", "]">>,
      <<"{", "}">>,
      <<"[", "]">>,
      <<>> }

AllTexts == {p \o m \o q : p \in Pads, m \in Mids, q \in Pads}

\* generatePrompt: the template's four holes, in the order it fills them.
generatePrompt(prefs) ==
    [goal |-> prefs.goal, experience |-> prefs.experience,
     dedication |-> prefs.dedication, timeframe |-> prefs.timeframe]

\* The strings of a text, one literal each, separated by commas.
RECURSIVE Literals(_)
Literals(strs) ==
    IF strs = <<>> THEN <<>> ELSE <<Head(strs), ",">> \o Literals(Tail(strs))

\* A roadmap the remote model writes for `prompt`: one step, which names what
\* the prompt asked for and lists no resources, inside a sentence.
Answer(prompt) ==
    <<"w", "[", "{">>
    \o Literals(Trim(prompt.goal)
                \o <<prompt.experience, prompt.dedication, prompt.timeframe>>)
    \o <<"[", "]", "}", "]", "w">>

\* The texts the remote call answers `prompt` with in the interactive session.
Responses(prompt) == { <<"w">>, <<"[", "{", "]">>, Answer(prompt) }

-----------------------------------------------------------------------------
(* localStorage: string-valued slots, absent until first written.          *)

Absent == [present |-> FALSE, value |-> <<>>]
Stored(v) == [present |-> TRUE, value |-> v]

\* A slot read by getItem is used only when it is a non-empty string.
Truthy(slot) == slot.present /\ slot.value # <<>>

EmptyStore ==
    [lastPreferences |-> Absent, geminiApiKey |-> Absent, savedRoadmaps |-> Absent]

\* JSON.stringify / JSON.parse of a UserPreferences: the four members in order.
StringifyPreferences(p) ==
    <<"{", p.goal, p.timeframe, p.experience, p.dedication, "}">>

ParsePreferences(s) ==
    [goal |-> s[2], timeframe |-> s[3], experience |-> s[4], dedication |-> s[5]]

\* JSON.stringify / JSON.parse of a SavedRoadmap[].
StringifySaved(list) ==
    [i \in 1..Len(list) |->
        <<StringifyPreferences(list[i].preferences), list[i].steps, list[i].createdAt>>]

ParseSaved(s) ==
    [i \in 1..Len(s) |->
        [preferences |-> ParsePreferences(s[i][1]), steps |-> s[i][2],
         createdAt |-> s[i][3]]]

-----------------------------------------------------------------------------
(* Construction: the useState initialisers of App.                         *)

InitialPreferences(store) ==
    IF Truthy(store.lastPreferences)
    THEN ParsePreferences(store.lastPreferences.value)
    ELSE DefaultPreferences

InitialApiKey(store) ==
    IF Truthy(store.geminiApiKey) THEN store.geminiApiKey.value ELSE <<>>

InitialSavedRoadmaps(store) ==
    IF Truthy(store.savedRoadmaps) THEN ParseSaved(store.savedRoadmaps.value) ELSE <<>>

NoPrompt == [any |-> FALSE, prompt |-> generatePrompt(DefaultPreferences)]

Event(op, idx, text) == [op |-> op, idx |-> idx, text |-> text]

\* The session a page load constructs over `store`; the display mode is read
\* from the host document, which the component does not control.
Construct(store, op) ==
    /\ preferences' = InitialPreferences(store)
    /\ loading' = FALSE
    /\ roadmap' = <<>>
    /\ error' = ""
    /\ apiKey' = InitialApiKey(store)
    /\ showApiInput' = ~Truthy(store.geminiApiKey)
    /\ isDarkMode' \in BOOLEAN
    /\ savedRoadmaps' = InitialSavedRoadmaps(store)
    /\ localStorage' = store
    /\ inflight' = <<>>
    /\ event' = Event(op, 0, <<>>)
    /\ UNCHANGED lastGenerated

Init ==
    /\ preferences = InitialPreferences(EmptyStore)
    /\ loading = FALSE
    /\ roadmap = <<>>
    /\ error = ""
    /\ apiKey = InitialApiKey(EmptyStore)
    /\ showApiInput = ~Truthy(EmptyStore.geminiApiKey)
    /\ isDarkMode \in BOOLEAN
    /\ savedRoadmaps = InitialSavedRoadmaps(EmptyStore)
    /\ localStorage = EmptyStore
    /\ inflight = <<>>
    /\ event = Event("init", 0, <<>>)
    /\ lastGenerated = NoPrompt

-----------------------------------------------------------------------------
(* Handlers.                                                               *)

toggleDarkMode ==
    /\ isDarkMode' = ~isDarkMode
    /\ event' = Event("input", 0, <<>>)
    /\ UNCHANGED <<preferences, loading, roadmap, error, apiKey, showApiInput,
                   savedRoadmaps, localStorage, inflight, lastGenerated>>

\* onChange of the goal input and of the three selects.
setPreference(field, v) ==
    /\ preferences' = [preferences EXCEPT ![field] = v]
    /\ event' = Event("input", 0, <<>>)
    /\ UNCHANGED <<loading, roadmap, error, apiKey, showApiInput, isDarkMode,
                   savedRoadmaps, localStorage, inflight, lastGenerated>>

\* onChange of the credential input.
setApiKey(k) ==
    /\ apiKey' = k
    /\ event' = Event("input", 0, <<>>)
    /\ UNCHANGED <<preferences, loading, roadmap, error, showApiInput, isDarkMode,
                   savedRoadmaps, localStorage, inflight, lastGenerated>>

\* onClick of Continue (FALSE) and of API Key (TRUE).
setShowApiInput(b) ==
    /\ showApiInput' = b
    /\ event' = Event("input", 0, <<>>)
    /\ UNCHANGED <<preferences, loading, roadmap, error, apiKey, isDarkMode,
                   savedRoadmaps, localStorage, inflight, lastGenerated>>

\* The save that writes the list it read, not the one it built.
saveRoadmapStaleStore(t) ==
    /\ IF roadmap = <<>>
       THEN UNCHANGED <<savedRoadmaps, localStorage>>
       ELSE LET newSavedRoadmap ==
                    [preferences |-> preferences, steps |-> roadmap, createdAt |-> t]
            IN  /\ savedRoadmaps' = Append(savedRoadmaps, newSavedRoadmap)
                /\ localStorage' =
                       [localStorage EXCEPT
                           !.savedRoadmaps = Stored(StringifySaved(savedRoadmaps))]
    /\ event' = Event("save", 0, <<>>)
    /\ UNCHANGED <<preferences, loading, roadmap, error, apiKey, showApiInput,
                   isDarkMode, inflight, lastGenerated>>

saveRoadmap(t) ==
    /\ IF roadmap = <<>>
       THEN UNCHANGED <<savedRoadmaps, localStorage>>
       ELSE LET newSavedRoadmap ==
                    [preferences |-> preferences, steps |-> roadmap, createdAt |-> t]
                updatedRoadmaps == Append(savedRoadmaps, newSavedRoadmap)
            IN  /\ savedRoadmaps' = updatedRoadmaps
                /\ localStorage' =
                       [localStorage EXCEPT
                           !.savedRoadmaps = Stored(StringifySaved(updatedRoadmaps))]
    /\ event' = Event("save", 0, <<>>)
    /\ UNCHANGED <<preferences, loading, roadmap, error, apiKey, showApiInput,
                   isDarkMode, inflight, lastGenerated>>

\* The load that restores the steps and forgets the preferences.
loadRoadmapStepsOnly(i) ==
    /\ roadmap' = savedRoadmaps[i].steps
    /\ event' = Event("load", i, <<>>)
    /\ UNCHANGED <<preferences, loading, error, apiKey, showApiInput, isDarkMode,
                   savedRoadmaps, localStorage, inflight, lastGenerated>>

loadRoadmap(i) ==
    /\ preferences' = savedRoadmaps[i].preferences
    /\ roadmap' = savedRoadmaps[i].steps
    /\ event' = Event("load", i, <<>>)
    /\ UNCHANGED <<loading, error, apiKey, showApiInput, isDarkMode, savedRoadmaps,
                   localStorage, inflight, lastGenerated>>

\* What the closure of a generateRoadmap call holds while it awaits.
Call ==
    [preferences |-> preferences, apiKey |-> apiKey, roadmap |-> roadmap,
     prompt |-> generatePrompt(preferences)]

\* generateRoadmap up to its await: validation, then the remote call starts.
generateRoadmap ==
    IF IsBlank(apiKey)
    THEN /\ error' = ErrNoKey
         /\ event' = Event("invalid", 0, <<>>)
         /\ UNCHANGED <<preferences, loading, roadmap, apiKey, showApiInput,
                        isDarkMode, savedRoadmaps, localStorage, inflight, lastGenerated>>
    ELSE IF IsBlank(preferences.goal)
    THEN /\ error' = ErrNoGoal
         /\ event' = Event("invalid", 0, <<>>)
         /\ UNCHANGED <<preferences, loading, roadmap, apiKey, showApiInput,
                        isDarkMode, savedRoadmaps, localStorage, inflight, lastGenerated>>
    ELSE /\ error' = ""
         /\ loading' = TRUE
         /\ inflight' = Append(inflight, Call)
         /\ event' = Event("start", 0, <<>>)
         /\ UNCHANGED <<preferences, roadmap, apiKey, showApiInput, isDarkMode,
                        savedRoadmaps, localStorage, lastGenerated>>

Without(seq, k) == [i \in 1..(Len(seq) - 1) |-> IF i < k THEN seq[i] ELSE seq[i + 1]]

\* The catch block that also drops the roadmap.
generateFailedResetting ==
    /\ error' = ErrFailed
    /\ loading' = FALSE
    /\ roadmap' = <<>>
    /\ UNCHANGED <<localStorage, lastGenerated>>

\* The catch block without the finally.
generateFailedStaysBusy ==
    /\ error' = ErrFailed
    /\ UNCHANGED <<loading, roadmap, localStorage, lastGenerated>>

\* The catch block and finally.
generateFailed ==
    /\ error' = ErrFailed
    /\ loading' = FALSE
    /\ UNCHANGED <<roadmap, localStorage, lastGenerated>>

\* The success path that saves the preferences of the moment it completes.
generateSucceededLatest(call, steps) ==
    /\ roadmap' = steps
    /\ localStorage' =
           [localStorage EXCEPT
               !.lastPreferences = Stored(StringifyPreferences(preferences)),
               !.geminiApiKey = Stored(call.apiKey)]
    /\ loading' = FALSE
    /\ lastGenerated' = [any |-> TRUE, prompt |-> call.prompt]
    /\ UNCHANGED error

\* Lines 126-130 and finally: the closure's preferences and credential are saved.
generateSucceeded(call, steps) ==
    /\ roadmap' = steps
    /\ localStorage' =
           [localStorage EXCEPT
               !.lastPreferences = Stored(StringifyPreferences(call.preferences)),
               !.geminiApiKey = Stored(call.apiKey)]
    /\ loading' = FALSE
    /\ lastGenerated' = [any |-> TRUE, prompt |-> call.prompt]
    /\ UNCHANGED error

\* generateRoadmap from its await on, for pending call k whose remote call
\* rejected (ok = FALSE) or resolved with `text`.
continuation(k, ok, text) ==
    /\ LET r == ExtractRoadmap(text)
       IN  IF ok /\ r.ok
           THEN generateSucceeded(inflight[k], r.steps)
           ELSE generateFailed
    /\ inflight' = Without(inflight, k)
    /\ event' = Event(IF ok THEN "resolve" ELSE "reject", 0, text)
    /\ UNCHANGED <<preferences, apiKey, showApiInput, isDarkMode, savedRoadmaps>>

-----------------------------------------------------------------------------
(* The interactive session: a handler runs when its control is rendered    *)
(* and enabled.                                                            *)

\* The button that stays enabled while busy.
GenerateDisabledIgnoringBusy == IsBlank(preferences.goal)

\* disabled= of the Generate Roadmap button.
GenerateDisabled == IsBlank(preferences.goal) \/ loading

\* disabled= of the Continue button.
ContinueDisabled == IsBlank(apiKey)

\* The Save Roadmap button is rendered.
SaveRendered == Len(roadmap) > 0 /\ ~loading

ToggleDarkMode == toggleDarkMode

EditPreference ==
    /\ ~showApiInput
    /\ \E field \in Fields : \E v \in Options(field) : setPreference(field, v)

EditApiKey ==
    /\ showApiInput
    /\ \E k \in Keys : setApiKey(k)

ClickContinue ==
    /\ showApiInput
    /\ ~ContinueDisabled
    /\ setShowApiInput(FALSE)

ClickApiKey ==
    /\ ~showApiInput
    /\ setShowApiInput(TRUE)

ClickGenerate ==
    /\ ~showApiInput
    /\ ~GenerateDisabled
    /\ Len(inflight) < MaxInFlight
    /\ generateRoadmap

ClickSave ==
    /\ SaveRendered
    /\ Len(savedRoadmaps) < MaxSaved
    /\ \E t \in Timestamps : saveRoadmap(t)

ClickLoad ==
    \E i \in 1..Len(savedRoadmaps) : loadRoadmap(i)

RemoteResolves ==
    \E k \in 1..Len(inflight) : \E text \in Responses(inflight[k].prompt) :
        continuation(k, TRUE, text)

RemoteRejects ==
    \E k \in 1..Len(inflight) : continuation(k, FALSE, <<>>)

\* The page is loaded again: pending calls die with the old page.
Restart == Construct(localStorage, "restart")

Next ==
    \/ ToggleDarkMode
    \/ EditPreference
    \/ EditApiKey
    \/ ClickContinue
    \/ ClickApiKey
    \/ ClickGenerate
    \/ ClickSave
    \/ ClickLoad
    \/ RemoteResolves
    \/ RemoteRejects
    \/ Restart

Spec == Init /\ [][Next]_vars

-----------------------------------------------------------------------------
(* generateRoadmap applied directly: to each credential and goal of the    *)
(* input sets, on a fresh session, with every response text of AllTexts.   *)

InitGenerate ==
    /\ \E g \in GoalInputs : preferences = [DefaultPreferences EXCEPT !.goal = g]
    /\ loading = FALSE
    /\ roadmap = <<>>
    /\ error = ""
    /\ apiKey \in KeyInputs
    /\ showApiInput = FALSE
    /\ isDarkMode = FALSE
    /\ savedRoadmaps = <<>>
    /\ localStorage = EmptyStore
    /\ inflight = <<>>
    /\ event = Event("init", 0, <<>>)
    /\ lastGenerated = NoPrompt

CallGenerate ==
    /\ event.op = "init"
    /\ Len(inflight) < MaxInFlight
    /\ generateRoadmap

RemoteAnswers ==
    \E k \in 1..Len(inflight) : \E text \in AllTexts : continuation(k, TRUE, text)

NextGenerate ==
    \/ CallGenerate
    \/ RemoteAnswers
    \/ RemoteRejects

SpecGenerate == InitGenerate /\ [][NextGenerate]_vars

-----------------------------------------------------------------------------
(* Properties.                                                             *)

\* A string that is empty or holds nothing but white space.
WhitespaceOnly(s) == \A i \in 1..Len(s) : s[i] = " "

\* C1: when generateRoadmap is applied with a credential that is empty or
\* whitespace-only, or with a goal that is, it ends in a validation failure
\* with an error message set: no remote call is started (none is ever
\* pending) and the busy flag is never set.
C1_ValidationBeforeRemoteCall ==
    (WhitespaceOnly(apiKey) \/ WhitespaceOnly(preferences.goal)) =>
        /\ ~loading
        /\ inflight = <<>>
        /\ event.op \in {"init", "invalid"}
        /\ event.op = "invalid" => error \in {ErrNoKey, ErrNoGoal}

C1_Witness ==
    /\ event.op = "invalid"
    /\ apiKey = <<" ", " ">>
    /\ error = ErrNoKey
    /\ ~loading
    /\ inflight = <<>>

\* The well-formed JSON arrays of a text, by where they start and end.
ArrayAt(text, i, j) ==
    /\ i < j
    /\ text[i] = "["
    /\ text[j] = "]"
    /\ JSONparse(SubSeq(text, i, j)).ok

Arrays(text) ==
    {ij \in (1..Len(text)) \X (1..Len(text)) : ArrayAt(text, ij[1], ij[2])}

\* Those that are not part of a larger one.
OuterArrays(text) ==
    {ij \in Arrays(text) :
        \A kl \in Arrays(text) : (kl[1] <= ij[1] /\ ij[2] <= kl[2]) => kl = ij}

\* The text holds exactly one JSON array, and it is an array of objects.
HoldsOneStepArray(text) ==
    /\ Cardinality(OuterArrays(text)) = 1
    /\ \A ij \in OuterArrays(text) :
           \A step \in Range(JSONparse(SubSeq(text, ij[1], ij[2])).val.e) :
               step.t = "obj"

TheArray(text) == CHOOSE ij \in OuterArrays(text) : TRUE

\* No "[" before the array and no "]" after it.
NoStrayBracket(text) ==
    /\ \A i \in 1..(TheArray(text)[1] - 1) : text[i] # "["
    /\ \A j \in (TheArray(text)[2] + 1)..Len(text) : text[j] # "]"

GeneratedFrom(text) ==
    /\ error = ""
    /\ ~loading
    /\ lastGenerated.any
    /\ roadmap = JSONparse(SubSeq(text, TheArray(text)[1], TheArray(text)[2])).val.e

\* C3 as stated: whenever the remote call resolves with a text that holds
\* exactly one well-formed JSON array of step objects, whatever free text
\* surrounds it, the generation succeeds and the roadmap is that array's
\* parsed content.
C3_AnySurroundingText ==
    (event.op = "resolve" /\ HoldsOneStepArray(event.text)) =>
        GeneratedFrom(event.text)

\* C3 as amended: the same, for texts with no "[" before the array and no
\* "]" after it.
C3_NoStrayBracket ==
    (event.op = "resolve" /\ HoldsOneStepArray(event.text)
        /\ NoStrayBracket(event.text)) =>
        GeneratedFrom(event.text)

C3_Witness ==
    /\ event.op = "resolve"
    /\ HoldsOneStepArray(event.text)
    /\ NoStrayBracket(event.text)
    /\ event.text[1] = "]"
    /\ event.text[Len(event.text)] = "["
    /\ Len(roadmap) = 2
    /\ roadmap[2].e # <<>>
    /\ GeneratedFrom(event.text)

\* A step in which a generation fails: validation, a rejected remote call,
\* or a response that yields no roadmap.
GenerationFails ==
    \/ event'.op = "invalid"
    \/ event'.op = "reject"
    \/ event'.op = "resolve" /\ ~ExtractRoadmap(event'.text).ok

\* C2 as stated: whenever a generation fails, the roadmap after the failure
\* is the roadmap from before that generation was triggered, and none of the
\* three slots is written.
C2_RoadmapAsBeforeTrigger ==
    [][GenerationFails =>
        /\ localStorage' = localStorage
        /\ roadmap' = IF event'.op = "invalid" THEN roadmap
                      ELSE Head(inflight).roadmap]_vars

\* C2 as amended: whenever a generation fails, the failure itself leaves the
\* roadmap and the three slots as they were; the roadmap is then the one from
\* before the trigger or one loaded from the saved list while the call was
\* pending.
C2_FailureLeavesRoadmap ==
    [][GenerationFails =>
        /\ localStorage' = localStorage
        /\ roadmap' = roadmap
        /\ event'.op # "invalid" =>
               \/ roadmap' = Head(inflight).roadmap
               \/ \E i \in 1..Len(savedRoadmaps) :
                      roadmap' = savedRoadmaps[i].steps]_vars

C2_Witness ==
    /\ event.op = "resolve"
    /\ Match(event.text).found
    /\ ~ExtractRoadmap(event.text).ok
    /\ error = ErrFailed
    /\ ~loading
    /\ roadmap # <<>>
    /\ localStorage.lastPreferences.present
    /\ ParsePreferences(localStorage.lastPreferences.value) # preferences

\* C4: a save with a non-empty roadmap appends exactly one entry at the end
\* of the saved list: the earlier entries keep value and position, the new
\* entry holds the current roadmap and the current preferences, and the
\* savedRoadmaps slot then reads back as the new list.
C4_SaveAppendsOne ==
    [][(event'.op = "save" /\ roadmap # <<>>) =>
        /\ Len(savedRoadmaps') = Len(savedRoadmaps) + 1
        /\ SubSeq(savedRoadmaps', 1, Len(savedRoadmaps)) = savedRoadmaps
        /\ savedRoadmaps'[Len(savedRoadmaps')].steps = roadmap
        /\ savedRoadmaps'[Len(savedRoadmaps')].preferences = preferences
        /\ localStorage'.savedRoadmaps.present
        /\ ParseSaved(localStorage'.savedRoadmaps.value) = savedRoadmaps']_vars

C4_Witness ==
    /\ event.op = "save"
    /\ Len(savedRoadmaps) = 2
    /\ savedRoadmaps[1] # savedRoadmaps[2]
    /\ savedRoadmaps[2].steps = roadmap
    /\ savedRoadmaps[2].preferences = preferences
    /\ ParseSaved(localStorage.savedRoadmaps.value) = savedRoadmaps

\* C5: loading a saved entry replaces the preferences and the roadmap with
\* the entry's, and leaves the saved list, the three slots, the credential,
\* the busy flag and the error message as they were, also while a generation
\* is pending.
C5_LoadReplacesSession ==
    [][event'.op = "load" =>
        /\ event'.idx \in 1..Len(savedRoadmaps)
        /\ preferences' = savedRoadmaps[event'.idx].preferences
        /\ roadmap' = savedRoadmaps[event'.idx].steps
        /\ savedRoadmaps' = savedRoadmaps
        /\ localStorage' = localStorage
        /\ apiKey' = apiKey
        /\ loading' = loading
        /\ error' = error
        /\ inflight' = inflight]_vars

C5_Witness ==
    /\ event.op = "load"
    /\ loading
    /\ inflight # <<>>
    /\ error = ""
    /\ roadmap = savedRoadmaps[event.idx].steps
    /\ preferences = savedRoadmaps[event.idx].preferences
    /\ preferences # Head(inflight).preferences
    /\ roadmap # Head(inflight).roadmap

\* C6: a restarted session starts with the preferences from which the prompt
\* of the latest successful generation was built, or with the defaults when
\* no generation has succeeded; edits and loads after it are not kept.
C6_RestartRestoresGenerated ==
    event.op = "restart" =>
        preferences =
            IF lastGenerated.any
            THEN [goal |-> lastGenerated.prompt.goal,
                  timeframe |-> lastGenerated.prompt.timeframe,
                  experience |-> lastGenerated.prompt.experience,
                  dedication |-> lastGenerated.prompt.dedication]
            ELSE [goal |-> <<>>, timeframe |-> "6 months",
                  experience |-> "beginner", dedication |-> "10 hours/week"]

C6_Witness ==
    /\ event.op = "restart"
    /\ lastGenerated.any
    /\ preferences.goal = <<"b">>
    /\ Len(savedRoadmaps) = 2
    /\ savedRoadmaps[2].preferences.goal = <<"a">>

\* C7: a credential typed in the credential field is in the geminiApiKey
\* slot once Continue is clicked, so that a restart finds it.
C7_ContinuePersistsCredential ==
    [][(showApiInput /\ ~showApiInput') =>
        localStorage'.geminiApiKey = Stored(apiKey')]_vars

\* The roadmap the generation whose prompt is built from `prefs` returns.
RoadmapFor(prefs) == ExtractRoadmap(Answer(generatePrompt(prefs))).steps

\* C8: every saved entry holds the preferences from which the prompt of the
\* generation that returned its steps was built.
C8_SavedPairsProducingPreferences ==
    \A i \in 1..Len(savedRoadmaps) :
        savedRoadmaps[i].steps = RoadmapFor(savedRoadmaps[i].preferences)

\* C9: at most one remote call is pending, and the busy flag is set while it
\* is, whatever the user does meanwhile.
C9_OneCallInFlight ==
    /\ Len(inflight) <= 1
    /\ inflight # <<>> => loading

C9_Witness ==
    /\ Len(inflight) = 1
    /\ loading
    /\ showApiInput
    /\ apiKey = <<>>
    /\ isDarkMode
    /\ event.op = "load"
    /\ preferences.goal # Head(inflight).preferences.goal

\* C10: the busy flag is set exactly while a remote call is pending: a
\* generation that passes validation sets it, and every completion (a
\* roadmap, no array, an unparsable array, a rejected call) clears it.
C10_BusyWhilePending ==
    /\ loading <=> inflight # <<>>
    /\ event.op \in {"resolve", "reject"} => ~loading
    /\ event.op = "start" => loading

\* C10, with the remote call eventually completing: busy leads to idle.
C10_BusyLeadsToIdle == loading ~> ~loading

C10_Witness ==
    /\ event.op = "resolve"
    /\ Match(event.text).found
    /\ ~ExtractRoadmap(event.text).ok
    /\ ~loading
    /\ inflight = <<>>

\* The remote call completes: it waits for its response or its failure.
FairSpec == Spec /\ WF_vars(RemoteResolves) /\ WF_vars(RemoteRejects)

====
